---- MODULE Spec2Model ----
(***************************************************************************)
(* GovSense API (backend/main.py): the two classification handlers,        *)
(* classify_text and classify_image, as a state machine over requests.     *)
(* A request is validated, the external model is called, and the model's   *)
(* free-text reply is parsed line by line into a ClassificationResponse.   *)
(*                                                                         *)
(* Text is modelled character by character on TLA+ strings: strip, split,  *)
(* startswith, lower, the substring test and float() are computed on the   *)
(* characters, as Python computes them.                                    *)
(***************************************************************************)
EXTENDS Integers, Sequences, FiniteSets, TLC

(***************************************************************************)
(* Bounds of the model.                                                    *)
(***************************************************************************)
\* Most lines in a reply of the specification that varies the replies.
MaxLines == 3
\* Most lines in a reply of the specifications that vary the requests.
MaxShortLines == 1

(***************************************************************************)
(* Python string operations.                                               *)
(***************************************************************************)
\* The characters str.strip() and float() remove (the ASCII ones).
Whitespace == {" ", "\t", "\n", "\r", "\f"}

CharAt(s, i) == SubSeq(s, i, i)

\* s[i:] with i counted from 1.
From(s, i) == IF i > Len(s) THEN "" ELSE SubSeq(s, i, Len(s))

RECURSIVE LStrip(_)
LStrip(s) ==
    IF Len(s) > 0 /\ CharAt(s, 1) \in Whitespace THEN LStrip(From(s, 2)) ELSE s

RECURSIVE RStrip(_)
RStrip(s) ==
    IF Len(s) > 0 /\ CharAt(s, Len(s)) \in Whitespace
    THEN RStrip(SubSeq(s, 1, Len(s) - 1))
    ELSE s

\* str.strip()
Strip(s) == RStrip(LStrip(s))

\* str.startswith(p)
StartsWith(s, p) == Len(s) >= Len(p) /\ SubSeq(s, 1, Len(p)) = p

\* The position of the first occurrence of character c in s at or after i,
\* 0 when there is none.
RECURSIVE IndexOf(_, _, _)
IndexOf(s, c, i) ==
    IF i > Len(s) THEN 0
    ELSE IF CharAt(s, i) = c THEN i
    ELSE IndexOf(s, c, i + 1)

\* str.split('\n'): the pieces between line feeds; "" splits to <<"">>.
RECURSIVE SplitLines(_)
SplitLines(s) ==
    LET k == IndexOf(s, "\n", 1)
    IN  IF k = 0 THEN <<s>>
        ELSE <<SubSeq(s, 1, k - 1)>> \o SplitLines(From(s, k + 1))

\* line.split(":", 1)[1]: everything after the first colon.  Only used on
\* lines that start with a field name, which ends in a colon.
AfterColon(line) == From(line, IndexOf(line, ":", 1) + 1)

UpperLetters == "ABCDEFGHIJKLMNOPQRSTUVWXYZ"
LowerLetters == "abcdefghijklmnopqrstuvwxyz"

\* The lower-case letter of every upper-case letter.
LowerOf ==
    [c \in {CharAt(UpperLetters, i) : i \in 1..Len(UpperLetters)} |->
        CharAt(LowerLetters, IndexOf(UpperLetters, c, 1))]

LowerChar(c) == IF c \in DOMAIN LowerOf THEN LowerOf[c] ELSE c

\* str.lower()
RECURSIVE Lower(_)
Lower(s) == IF s = "" THEN "" ELSE LowerChar(CharAt(s, 1)) \o Lower(From(s, 2))

\* sub in s
Contains(s, sub) ==
    \E i \in 1..(Len(s) - Len(sub) + 1) : SubSeq(s, i, i + Len(sub) - 1) = sub

\* s[:n]
Prefix(s, n) == IF Len(s) <= n THEN s ELSE SubSeq(s, 1, n)

(***************************************************************************)
(* Python floats.  A finite value is sign * n / d in lowest terms (the     *)
(* sign kept apart, so that -0.0 stays distinct from 0.0); the two         *)
(* infinities and NaN are values of their own.  The binary rounding of a   *)
(* decimal literal is not modelled: the replies of the model stay within   *)
(* a few digits, where comparison with 0.0 and 1.0 is exact.               *)
(***************************************************************************)
RECURSIVE Gcd(_, _)
Gcd(a, b) == IF b = 0 THEN a ELSE Gcd(b, a % b)

RECURSIVE Pow10(_)
Pow10(k) == IF k <= 0 THEN 1 ELSE 10 * Pow10(k - 1)

Fin(sgn, n, d) ==
    LET g == IF n = 0 THEN d ELSE Gcd(n, d)
    IN  [k |-> "fin", s |-> sgn, n |-> n \div g, d |-> d \div g]

NaN == [k |-> "nan", s |-> 1, n |-> 0, d |-> 1]
Inf(sgn) == [k |-> "inf", s |-> sgn, n |-> 1, d |-> 1]
ValueError == [k |-> "ValueError", s |-> 1, n |-> 0, d |-> 1]

\* a < b on floats; every comparison with NaN is false.
FloatLt(a, b) ==
    IF a.k = "nan" \/ b.k = "nan" THEN FALSE
    ELSE IF a.k = "inf" THEN a.s = -1 /\ ~(b.k = "inf" /\ b.s = -1)
    ELSE IF b.k = "inf" THEN b.s = 1
    ELSE a.s * a.n * b.d < b.s * b.n * a.d

\* a <= b on floats.
FloatLe(a, b) ==
    IF a.k = "nan" \/ b.k = "nan" THEN FALSE
    ELSE ~FloatLt(b, a)

\* The built-in max(a, b) and min(a, b): the first argument, unless the
\* second compares strictly greater (smaller).
PyMax(a, b) == IF FloatLt(a, b) THEN b ELSE a
PyMin(a, b) == IF FloatLt(b, a) THEN b ELSE a

Digits == "0123456789"
IsDigit(c) == c # "" /\ IndexOf(Digits, c, 1) > 0
DigitVal(c) == IndexOf(Digits, c, 1) - 1

\* The digit run of s starting at i, single underscores allowed between two
\* digits: where it ends (j, the next position), its value v and its number
\* of digits c.
RECURSIVE DigitRun(_, _, _, _)
DigitRun(s, i, v, c) ==
    IF i <= Len(s) /\ IsDigit(CharAt(s, i))
    THEN DigitRun(s, i + 1, 10 * v + DigitVal(CharAt(s, i)), c + 1)
    ELSE IF c > 0 /\ i < Len(s) /\ CharAt(s, i) = "_" /\ IsDigit(CharAt(s, i + 1))
    THEN DigitRun(s, i + 1, v, c)
    ELSE [j |-> i, v |-> v, c |-> c]

\* float(s) of a string: surrounding whitespace dropped, an optional sign,
\* then inf, infinity or nan in any case, or a decimal literal with an
\* optional fraction and exponent.  Anything else raises ValueError.
PyFloat(s) ==
    LET t    == Strip(s)
        sgn  == IF StartsWith(t, "-") THEN -1 ELSE 1
        b    == IF StartsWith(t, "-") \/ StartsWith(t, "+") THEN From(t, 2) ELSE t
        lb   == Lower(b)
        ip   == DigitRun(b, 1, 0, 0)
        dot  == ip.j <= Len(b) /\ CharAt(b, ip.j) = "."
        fp   == IF dot THEN DigitRun(b, ip.j + 1, 0, 0)
                       ELSE [j |-> ip.j, v |-> 0, c |-> 0]
        hasE == fp.j <= Len(b) /\ CharAt(b, fp.j) \in {"e", "E"}
        eneg == hasE /\ fp.j + 1 <= Len(b) /\ CharAt(b, fp.j + 1) = "-"
        epos == hasE /\ fp.j + 1 <= Len(b) /\ CharAt(b, fp.j + 1) = "+"
        ep   == IF hasE
                THEN DigitRun(b, fp.j + 1 + (IF eneg \/ epos THEN 1 ELSE 0), 0, 0)
                ELSE [j |-> fp.j, v |-> 0, c |-> 1]
        mant == ip.v * Pow10(fp.c) + fp.v
        e10  == (IF eneg THEN 0 - ep.v ELSE ep.v) - fp.c
    IN  IF lb \in {"inf", "infinity"} THEN Inf(sgn)
        ELSE IF lb = "nan" THEN NaN
        ELSE IF ip.c + fp.c = 0 \/ ep.c = 0 \/ ep.j # Len(b) + 1 THEN ValueError
        ELSE IF e10 >= 0 THEN Fin(sgn, mant * Pow10(e10), 1)
        ELSE Fin(sgn, mant, Pow10(0 - e10))

(***************************************************************************)
(* The request and response models.                                        *)
(***************************************************************************)
None == "<None>"

\* A faulty variant of TextInputValid: the length of the text is not checked.
TextInputUnchecked(text_len) == TRUE

\* Field(..., min_length=1, max_length=2000) of TextInput.text
TextInputValid(text_len) == text_len >= 1 /\ text_len <= 2000

valid_classifications == <<"constructive", "neutral", "hate_speech", "unrelated">>

IsValidClassification(c) ==
    \E i \in DOMAIN valid_classifications : valid_classifications[i] = c

ZeroFloat == Fin(1, 0, 1)
OneFloat == Fin(1, 1, 1)

\* A faulty variant of ClassificationResponseValid: no constraint on confidence.
UnconstrainedResponseValid(res) == IsValidClassification(res.classification)

\* ClassificationResponse: classification is one of the Literal's four
\* strings, and confidence satisfies ge=0.0 and le=1.0.  NaN satisfies
\* neither bound.
ClassificationResponseValid(res) ==
    /\ IsValidClassification(res.classification)
    /\ FloatLe(ZeroFloat, res.confidence)
    /\ FloatLe(res.confidence, OneFloat)

(***************************************************************************)
(* The reply parser of classify_text.                                      *)
(***************************************************************************)
InitialLocals == [classification |-> None, confidence |-> ZeroFloat, explanation |-> ""]

\* A faulty variant of TextConfidenceDefault: the except branch leaves 0.0.
TextConfidenceZero == ZeroFloat

\* confidence = 0.75  # Default confidence
TextConfidenceDefault == Fin(1, 75, 100)

\* A faulty variant of TextSetClassification: the first CLASSIFICATION: line wins.
TextKeepFirstClassification(loc, line) ==
    IF loc.classification = None
    THEN [loc EXCEPT !.classification = Lower(Strip(AfterColon(line)))]
    ELSE loc

TextSetClassification(loc, line) ==
    [loc EXCEPT !.classification = Lower(Strip(AfterColon(line)))]

TextSetConfidence(loc, line) ==
    LET f == PyFloat(Strip(AfterColon(line)))
    IN  [loc EXCEPT !.confidence = IF f = ValueError THEN TextConfidenceDefault ELSE f]

TextSetExplanation(loc, line) ==
    [loc EXCEPT !.explanation = Strip(AfterColon(line))]

\* The body of the for loop, for one line.
TextScanLine(loc, line) ==
    IF StartsWith(line, "CLASSIFICATION:") THEN TextSetClassification(loc, line)
    ELSE IF StartsWith(line, "CONFIDENCE:") THEN TextSetConfidence(loc, line)
    ELSE IF StartsWith(line, "EXPLANATION:") THEN TextSetExplanation(loc, line)
    ELSE loc

\* for cat in valid_classifications: if cat in raw_lower: ...; break
RECURSIVE FirstCategoryIn(_, _, _)
FirstCategoryIn(raw_lower, i, classification) ==
    IF i > Len(valid_classifications) THEN classification
    ELSE IF Contains(raw_lower, valid_classifications[i]) THEN valid_classifications[i]
    ELSE FirstCategoryIn(raw_lower, i + 1, classification)

\* The position of the first occurrence of sub in s, 0 when there is none.
Find(s, sub) ==
    IF Contains(s, sub)
    THEN CHOOSE i \in 1..Len(s) :
            /\ i + Len(sub) - 1 <= Len(s)
            /\ SubSeq(s, i, i + Len(sub) - 1) = sub
            /\ \A j \in 1..(i - 1) : SubSeq(s, j, j + Len(sub) - 1) # sub
    ELSE 0

\* A faulty variant of TextFallback: the category that occurs earliest in the text.
TextFallbackByPosition(raw_output, classification) ==
    LET raw_lower == Lower(raw_output)
        found == {i \in DOMAIN valid_classifications :
                     Contains(raw_lower, valid_classifications[i])}
    IN  IF found = {} THEN "neutral"
        ELSE valid_classifications[
                CHOOSE i \in found : \A j \in found :
                    Find(raw_lower, valid_classifications[i])
                        <= Find(raw_lower, valid_classifications[j])]

\* A faulty variant of TextFallback: no keyword scan, straight to the default.
TextFallbackNoScan(raw_output, classification) == "neutral"

\* The fallback taken when classification is not in valid_classifications.
TextFallback(raw_output, classification) ==
    LET c == FirstCategoryIn(Lower(raw_output), 1, classification)
    IN  IF ~IsValidClassification(c) THEN "neutral" ELSE c

\* min(max(confidence, 0.0), 1.0)
TextClamp(confidence) == PyMin(PyMax(confidence, ZeroFloat), OneFloat)

\* The arguments of ClassificationResponse(...), timestamp aside.
TextResponse(loc, raw_output) ==
    [classification |-> loc.classification,
     confidence     |-> TextClamp(loc.confidence),
     explanation    |-> IF loc.explanation = "" THEN Prefix(raw_output, 200)
                                                ELSE loc.explanation,
     raw_output     |-> raw_output]

(***************************************************************************)
(* The reply parser of classify_image: a second copy of the same code.     *)
(***************************************************************************)
\* A faulty variant of ImageConfidenceDefault: the copies drift apart.
ImageConfidenceDrifted == Fin(1, 5, 10)

\* confidence = 0.75
ImageConfidenceDefault == Fin(1, 75, 100)

ImageSetClassification(loc, line) ==
    [loc EXCEPT !.classification = Lower(Strip(AfterColon(line)))]

ImageSetConfidence(loc, line) ==
    LET f == PyFloat(Strip(AfterColon(line)))
    IN  [loc EXCEPT !.confidence = IF f = ValueError THEN ImageConfidenceDefault ELSE f]

ImageSetExplanation(loc, line) ==
    [loc EXCEPT !.explanation = Strip(AfterColon(line))]

ImageScanLine(loc, line) ==
    IF StartsWith(line, "CLASSIFICATION:") THEN ImageSetClassification(loc, line)
    ELSE IF StartsWith(line, "CONFIDENCE:") THEN ImageSetConfidence(loc, line)
    ELSE IF StartsWith(line, "EXPLANATION:") THEN ImageSetExplanation(loc, line)
    ELSE loc

ImageFallback(raw_output, classification) ==
    LET c == FirstCategoryIn(Lower(raw_output), 1, classification)
    IN  IF ~IsValidClassification(c) THEN "neutral" ELSE c

ImageClamp(confidence) == PyMin(PyMax(confidence, ZeroFloat), OneFloat)

ImageResponse(loc, raw_output) ==
    [classification |-> loc.classification,
     confidence     |-> ImageClamp(loc.confidence),
     explanation    |-> IF loc.explanation = "" THEN Prefix(raw_output, 200)
                                                ELSE loc.explanation,
     raw_output     |-> raw_output]

(***************************************************************************)
(* Validation of an upload, and the handlers' except clauses.              *)
(***************************************************************************)
allowed_types == {"image/jpeg", "image/jpg", "image/png"}

\* if len(contents) > 5 * 1024 * 1024
MaxImageBytes == 5 * 1024 * 1024

HTTPException(code) == [type |-> "HTTPException", status_code |-> code]
OtherException == [type |-> "Exception", status_code |-> 0]

\* classify_text: except Exception -> 500
TextExcept(e) == 500

\* classify_image: except HTTPException: raise; except Exception -> 500
ImageExcept(e) == IF e.type = "HTTPException" THEN e.status_code ELSE 500

(***************************************************************************)
(* What the clients send and what the external model replies.              *)
(***************************************************************************)
NoRequest ==
    [endpoint |-> "none", text_len |-> 0, content_type |-> "", size |-> 0,
     decodable |-> FALSE]

TextRequest(n) ==
    [endpoint |-> "classify_text", text_len |-> n, content_type |-> "", size |-> 0,
     decodable |-> FALSE]

ImageRequest(t, n, d) ==
    [endpoint |-> "classify_image", text_len |-> 0, content_type |-> t, size |-> n,
     decodable |-> d]

\* Every kind of request: texts around both length limits, uploads of every
\* allowed type and of one that is not, around the size limit, decodable or not.
AllRequests ==
    {TextRequest(n) : n \in {0, 1, 2000, 2001}}
    \cup {ImageRequest(t, n, d) :
            t \in allowed_types \cup {"image/gif"},
            n \in {0, MaxImageBytes, MaxImageBytes + 1},
            d \in BOOLEAN}

\* One request per endpoint that passes validation.
GoodRequests == {TextRequest(1), ImageRequest("image/png", MaxImageBytes, TRUE)}

\* s1 \n s2 \n ... of up to n lines drawn from L.
RECURSIVE Texts(_, _)
Texts(L, n) ==
    IF n <= 1 THEN L
    ELSE L \cup {t \o "\n" \o l : t \in Texts(L, n - 1), l \in L}

\* The lines of a reply: the three fields with well-formed and malformed
\* values, and lines that are no field.
ClassificationValues == {" Constructive", " hate_speech", " unknown"}
ConfidenceValues == {" 0.9", " 5.0", " -1", " nan", " notanumber", ""}
ExplanationValues == {" Good feedback", ""}
OtherLines == {" hate_speech", "unrelated, not Neutral"}
ReplyLines ==
    {"CLASSIFICATION:" \o v : v \in ClassificationValues}
    \cup {"CONFIDENCE:" \o v : v \in ConfidenceValues}
    \cup {"EXPLANATION:" \o v : v \in ExplanationValues}
    \cup OtherLines
Replies == Texts(ReplyLines, MaxLines)

\* The replies of the specifications that vary the requests.
ShortLines ==
    {"CLASSIFICATION: Unrelated", "CONFIDENCE: 0.9", "CONFIDENCE: nan",
     "CONFIDENCE: high", "EXPLANATION: hate_speech", "not Constructive"}
ShortReplies == Texts(ShortLines, MaxShortLines)

(***************************************************************************)
(* The state: one handler invocation per request.                          *)
(***************************************************************************)
VARIABLES
    pc,          \* where each request's handler stands
    request,     \* what the client sent
    calls,       \* how often generate_content was called for the request
    raw_output,  \* response.text
    lines,       \* raw_output.strip().split('\n')
    idx,         \* the for loop's position in lines
    loc,         \* the locals classification, confidence, explanation
    scanned,     \* classification as the for loop left it
    status,      \* the HTTP status of the response, 0 while there is none
    result       \* the ClassificationResponse returned with a 200

vars == <<pc, request, calls, raw_output, lines, idx, loc, scanned, status, result>>

NoResult ==
    [classification |-> None, confidence |-> ZeroFloat, explanation |-> "",
     raw_output |-> ""]

InitFor(R) ==
    /\ pc = [r \in R |-> "idle"]
    /\ request = [r \in R |-> NoRequest]
    /\ calls = [r \in R |-> 0]
    /\ raw_output = [r \in R |-> ""]
    /\ lines = [r \in R |-> <<>>]
    /\ idx = [r \in R |-> 0]
    /\ loc = [r \in R |-> InitialLocals]
    /\ scanned = [r \in R |-> None]
    /\ status = [r \in R |-> 0]
    /\ result = [r \in R |-> NoResult]

\* The response is sent: an error status, or 200 with a result.
Finish(r, code, res) ==
    /\ pc' = [pc EXCEPT ![r] = "done"]
    /\ status' = [status EXCEPT ![r] = code]
    /\ result' = [result EXCEPT ![r] = res]

\* An exception raised inside the handler's try block.
Raise(r, e) ==
    Finish(r, IF request[r].endpoint = "classify_text" THEN TextExcept(e)
                                                       ELSE ImageExcept(e), NoResult)

\* A request arrives.
Receive(r, reqs) ==
    /\ pc[r] = "idle"
    /\ \E q \in reqs : request' = [request EXCEPT ![r] = q]
    /\ pc' = [pc EXCEPT ![r] = "validate"]
    /\ UNCHANGED <<calls, raw_output, lines, idx, loc, scanned, status, result>>

\* classify_text(input_data: TextInput): the body is validated before the
\* handler runs; a text that is too short or too long is answered 422.
ValidateText(r) ==
    /\ pc[r] = "validate"
    /\ request[r].endpoint = "classify_text"
    /\ IF TextInputValid(request[r].text_len)
       THEN pc' = [pc EXCEPT ![r] = "call"] /\ UNCHANGED <<status, result>>
       ELSE Finish(r, 422, NoResult)
    /\ UNCHANGED <<request, calls, raw_output, lines, idx, loc, scanned>>

\* if file.content_type not in allowed_types: raise HTTPException(400)
CheckContentType(r) ==
    /\ pc[r] = "validate"
    /\ request[r].endpoint = "classify_image"
    /\ IF request[r].content_type \in allowed_types
       THEN pc' = [pc EXCEPT ![r] = "read"] /\ UNCHANGED <<status, result>>
       ELSE Raise(r, HTTPException(400))
    /\ UNCHANGED <<request, calls, raw_output, lines, idx, loc, scanned>>

\* contents = await file.read(); if len(contents) > 5 MiB: raise HTTPException(400)
CheckSize(r) ==
    /\ pc[r] = "read"
    /\ IF request[r].size > MaxImageBytes
       THEN Raise(r, HTTPException(400))
       ELSE pc' = [pc EXCEPT ![r] = "open"] /\ UNCHANGED <<status, result>>
    /\ UNCHANGED <<request, calls, raw_output, lines, idx, loc, scanned>>

\* image = Image.open(io.BytesIO(contents)): raises on bytes that are no image.
OpenImage(r) ==
    /\ pc[r] = "open"
    /\ IF request[r].decodable
       THEN pc' = [pc EXCEPT ![r] = "call"] /\ UNCHANGED <<status, result>>
       ELSE Raise(r, OtherException)
    /\ UNCHANGED <<request, calls, raw_output, lines, idx, loc, scanned>>

\* response = model.generate_content(...); raw_output = response.text
\* The external model answers with some text, or the call raises.
GenerateContent(r, replies) ==
    /\ pc[r] = "call"
    /\ calls' = [calls EXCEPT ![r] = @ + 1]
    /\ \E ok \in BOOLEAN, reply \in replies :
          IF ok
          THEN /\ raw_output' = [raw_output EXCEPT ![r] = reply]
               /\ pc' = [pc EXCEPT ![r] = "parse"]
               /\ UNCHANGED <<status, result>>
          ELSE /\ Raise(r, OtherException)
               /\ UNCHANGED raw_output
    /\ UNCHANGED <<request, lines, idx, loc, scanned>>

\* A faulty variant of ParseLocals: the locals are module globals, which keep what
\* the last request to parse left in them.
ParseLocalsShared(r) ==
    IF \E q \in DOMAIN pc : q # r /\ pc[q] \in {"scan", "respond", "done"}
    THEN loc[CHOOSE q \in DOMAIN pc : q # r /\ pc[q] \in {"scan", "respond", "done"}]
    ELSE InitialLocals

\* classification = None; confidence = 0.0; explanation = ""
ParseLocals(r) == InitialLocals

\* lines = raw_output.strip().split('\n') and the locals' initial values.
ParseStart(r) ==
    /\ pc[r] = "parse"
    /\ lines' = [lines EXCEPT ![r] = SplitLines(Strip(raw_output[r]))]
    /\ idx' = [idx EXCEPT ![r] = 1]
    /\ loc' = [loc EXCEPT ![r] = ParseLocals(r)]
    /\ pc' = [pc EXCEPT ![r] = "scan"]
    /\ UNCHANGED <<request, calls, raw_output, scanned, status, result>>

\* One iteration of: for line in lines
ScanStep(r) ==
    /\ pc[r] = "scan"
    /\ idx[r] <= Len(lines[r])
    /\ loc' = [loc EXCEPT ![r] =
                  IF request[r].endpoint = "classify_text"
                  THEN TextScanLine(loc[r], lines[r][idx[r]])
                  ELSE ImageScanLine(loc[r], lines[r][idx[r]])]
    /\ idx' = [idx EXCEPT ![r] = @ + 1]
    /\ UNCHANGED <<pc, request, calls, raw_output, lines, scanned, status, result>>

\* if classification not in valid_classifications: the keyword fallback
ValidateClassification(r) ==
    /\ pc[r] = "scan"
    /\ idx[r] > Len(lines[r])
    /\ scanned' = [scanned EXCEPT ![r] = loc[r].classification]
    /\ loc' = [loc EXCEPT ![r].classification =
                  IF IsValidClassification(loc[r].classification) THEN @
                  ELSE IF request[r].endpoint = "classify_text"
                  THEN TextFallback(raw_output[r], @)
                  ELSE ImageFallback(raw_output[r], @)]
    /\ pc' = [pc EXCEPT ![r] = "respond"]
    /\ UNCHANGED <<request, calls, raw_output, lines, idx, status, result>>

\* return ClassificationResponse(...): the model validates its fields, and a
\* ValidationError is an Exception like any other to the except clause.
Respond(r) ==
    /\ pc[r] = "respond"
    /\ LET res == IF request[r].endpoint = "classify_text"
                  THEN TextResponse(loc[r], raw_output[r])
                  ELSE ImageResponse(loc[r], raw_output[r])
       IN  IF ClassificationResponseValid(res)
           THEN Finish(r, 200, res)
           ELSE Raise(r, OtherException)
    /\ UNCHANGED <<request, calls, raw_output, lines, idx, loc, scanned>>

Step(r, reqs, replies) ==
    \/ Receive(r, reqs)
    \/ ValidateText(r)
    \/ CheckContentType(r)
    \/ CheckSize(r)
    \/ OpenImage(r)
    \/ GenerateContent(r, replies)
    \/ ParseStart(r)
    \/ ScanStep(r)
    \/ ValidateClassification(r)
    \/ Respond(r)

\* One request of any kind, with a short reply.
Init == InitFor({1})
Next == Step(1, AllRequests, ShortReplies)
Spec == Init /\ [][Next]_vars

\* One valid request, with every reply.
ParseNext == Step(1, GoodRequests, Replies)
ParseSpec == Init /\ [][ParseNext]_vars

\* Two requests handled concurrently, their steps interleaved.
PairInit == InitFor({1, 2})
PairNext == \E r \in {1, 2} : Step(r, GoodRequests, ShortReplies)
PairSpec == PairInit /\ [][PairNext]_vars

(***************************************************************************)
(* The parser as a function of the raw reply text alone, for comparison    *)
(* with what the handlers' steps compute.                                  *)
(***************************************************************************)
RECURSIVE TextScanAll(_, _, _)
TextScanAll(l, ls, i) ==
    IF i > Len(ls) THEN l ELSE TextScanAll(TextScanLine(l, ls[i]), ls, i + 1)

RECURSIVE ImageScanAll(_, _, _)
ImageScanAll(l, ls, i) ==
    IF i > Len(ls) THEN l ELSE ImageScanAll(ImageScanLine(l, ls[i]), ls, i + 1)

Outcome(res) ==
    IF ClassificationResponseValid(res) THEN [status |-> 200, result |-> res]
                                        ELSE [status |-> 500, result |-> NoResult]

TextParse(raw) ==
    LET l == TextScanAll(InitialLocals, SplitLines(Strip(raw)), 1)
        c == IF IsValidClassification(l.classification) THEN l.classification
             ELSE TextFallback(raw, l.classification)
    IN  Outcome(TextResponse([l EXCEPT !.classification = c], raw))

ImageParse(raw) ==
    LET l == ImageScanAll(InitialLocals, SplitLines(Strip(raw)), 1)
        c == IF IsValidClassification(l.classification) THEN l.classification
             ELSE ImageFallback(raw, l.classification)
    IN  Outcome(ImageResponse([l EXCEPT !.classification = c], raw))

(***************************************************************************)
(* Properties.                                                             *)
(***************************************************************************)
Requests == DOMAIN pc

\* The model call succeeded and the handler went on to parse the reply.
ReplyReceived(r) == idx[r] >= 1
\* The parser is past the fallback: loc holds the final classification.
Parsed(r) == pc[r] \in {"respond", "done"} /\ ReplyReceived(r)
\* The handler answered 200 with result[r].
Returned(r) == pc[r] = "done" /\ status[r] = 200

Categories == {"constructive", "neutral", "hate_speech", "unrelated"}

\* C1: every ClassificationResponse a handler returns has a classification
\* among the four categories and a finite confidence between 0 and 1.
C1_ResultWellFormed ==
    \A r \in Requests :
        Returned(r) =>
            /\ result[r].classification \in Categories
            /\ result[r].confidence.k = "fin"
            /\ 0 <= result[r].confidence.s * result[r].confidence.n
            /\ result[r].confidence.n <= result[r].confidence.d

\* C1's case: a reply whose confidence was out of range and whose
\* classification needed the fallback, answered with a clamped result.
C1_Witness ==
    \E r \in Requests :
        /\ Returned(r)
        /\ ~IsValidClassification(scanned[r])
        /\ loc[r].confidence = Fin(1, 5, 1)
        /\ result[r].confidence = OneFloat

\* C2: once the model call has returned a non-empty reply, the handler
\* answers 200.
C2_ParsingNeverFails ==
    \A r \in Requests :
        (pc[r] = "done" /\ ReplyReceived(r) /\ raw_output[r] # "") => status[r] = 200

\* The request's input passes validation.
InputValid(q) ==
    IF q.endpoint = "classify_text"
    THEN 1 <= q.text_len /\ q.text_len <= 2000
    ELSE q.content_type \in {"image/jpeg", "image/jpg", "image/png"}
         /\ q.size <= 5242880

\* C3: the external model is called at most once per request (so a failed
\* call is not repeated), never before validation has passed and never for a
\* request that validation rejects.
C3_AtMostOneCall ==
    \A r \in Requests :
        /\ calls[r] \in {0, 1}
        /\ pc[r] \in {"idle", "validate", "read", "open", "call"} => calls[r] = 0
        /\ (pc[r] # "idle" /\ ~InputValid(request[r])) => calls[r] = 0
        /\ status[r] \in {400, 422} => calls[r] = 0

\* C3's case: the one call failed, and the handler answered 500 without
\* calling again.
C3_Witness ==
    \E r \in Requests :
        pc[r] = "done" /\ status[r] = 500 /\ calls[r] = 1 /\ ~ReplyReceived(r)

\* C4: classify_image answers 400 exactly when the content type or the size
\* is rejected, 500 exactly when validation passed and decoding or the model
\* call failed, and 200 otherwise.
C4_ImageOutcome ==
    \A r \in Requests :
        (pc[r] = "done" /\ request[r].endpoint = "classify_image") =>
            LET rejected == ~InputValid(request[r])
                failed   == ~rejected /\ (~request[r].decodable \/ ~ReplyReceived(r))
            IN  /\ status[r] = 400 <=> rejected
                /\ status[r] = 500 <=> failed
                /\ status[r] = 200 <=> (~rejected /\ ~failed)

\* No CLASSIFICATION: line among the lines ls names one of the four
\* categories.
NoWellFormedClassification(ls) ==
    \A i \in DOMAIN ls :
        StartsWith(ls[i], "CLASSIFICATION:")
            => Lower(Strip(AfterColon(ls[i]))) \notin Categories

\* C5, as claimed: a reply that contains "hate_speech" and has no well-formed
\* CLASSIFICATION: line is classified hate_speech.
C5_HateSpeechFallback ==
    \A r \in Requests :
        (Parsed(r) /\ Contains(raw_output[r], "hate_speech")
                   /\ NoWellFormedClassification(lines[r]))
            => loc[r].classification = "hate_speech"

\* C5, amended: a reply that contains "hate_speech", contains neither
\* "constructive" nor "neutral" in any letter case, and has no well-formed
\* CLASSIFICATION: line is classified hate_speech.
C5_HateSpeechFallbackAmended ==
    \A r \in Requests :
        (Parsed(r) /\ Contains(raw_output[r], "hate_speech")
                   /\ ~Contains(Lower(raw_output[r]), "constructive")
                   /\ ~Contains(Lower(raw_output[r]), "neutral")
                   /\ NoWellFormedClassification(lines[r]))
            => /\ loc[r].classification = "hate_speech"
               /\ Returned(r) => result[r].classification = "hate_speech"

\* C5's case: a reply with a malformed CLASSIFICATION: line and
\* "hate_speech" in it, returned as hate_speech.
C5_Witness ==
    \E r \in Requests :
        /\ Returned(r)
        /\ \E i \in DOMAIN lines[r] : StartsWith(lines[r][i], "CLASSIFICATION:")
        /\ NoWellFormedClassification(lines[r])
        /\ Contains(raw_output[r], "hate_speech")
        /\ result[r].classification = "hate_speech"

\* The value of the last CLASSIFICATION: line among the first n lines, None
\* when there is none.
LastClassification(ls, n) ==
    LET at == {i \in 1..n : StartsWith(ls[i], "CLASSIFICATION:")}
    IN  IF at = {} THEN None
        ELSE Lower(Strip(AfterColon(ls[CHOOSE i \in at : \A j \in at : j <= i])))

\* C6: at every point of the scan the classification is the value of the
\* last CLASSIFICATION: line read so far, so the last such line of the reply
\* is the one validated; when it names a category, that is the result.
C6_LastClassificationWins ==
    \A r \in Requests :
        /\ pc[r] = "scan" => loc[r].classification = LastClassification(lines[r], idx[r] - 1)
        /\ Parsed(r) =>
              /\ scanned[r] = LastClassification(lines[r], Len(lines[r]))
              /\ scanned[r] \in Categories => loc[r].classification = scanned[r]
              /\ (scanned[r] \in Categories /\ Returned(r))
                    => result[r].classification = scanned[r]

\* C6's case: two CLASSIFICATION: lines naming different categories; the
\* second is returned.
C6_Witness ==
    \E r \in Requests :
        /\ Returned(r)
        /\ Len(lines[r]) = 2
        /\ StartsWith(lines[r][1], "CLASSIFICATION:")
        /\ StartsWith(lines[r][2], "CLASSIFICATION:")
        /\ Lower(Strip(AfterColon(lines[r][1]))) = "constructive"
        /\ result[r].classification = "hate_speech"

\* Line i is a CONFIDENCE: line whose remainder float() rejects.
BadConfidence(ls, i) ==
    StartsWith(ls[i], "CONFIDENCE:") /\ PyFloat(AfterColon(ls[i])) = ValueError

\* C7: when a CONFIDENCE: line does not parse and no later CONFIDENCE: line
\* parses, the handler answers 200 with confidence 0.75.
C7_DefaultConfidence ==
    \A r \in Requests :
        (pc[r] = "done" /\ ReplyReceived(r)
            /\ \E i \in DOMAIN lines[r] :
                  /\ BadConfidence(lines[r], i)
                  /\ \A j \in DOMAIN lines[r] :
                        (j > i /\ StartsWith(lines[r][j], "CONFIDENCE:"))
                            => BadConfidence(lines[r], j))
            => /\ status[r] = 200
               /\ result[r].confidence = [k |-> "fin", s |-> 1, n |-> 3, d |-> 4]

\* C7's case: a CONFIDENCE: line that parses, then one that does not.
C7_Witness ==
    \E r \in Requests :
        /\ Returned(r)
        /\ Len(lines[r]) = 2
        /\ lines[r][1] = "CONFIDENCE: 0.9"
        /\ BadConfidence(lines[r], 2)
        /\ result[r].confidence = [k |-> "fin", s |-> 1, n |-> 3, d |-> 4]

\* What a handler answers on a reply, as a function of the reply alone.
ParseOf(endpoint, raw) ==
    IF endpoint = "classify_text" THEN TextParse(raw) ELSE ImageParse(raw)

\* C8: the answer to a request is a function of its own reply text: it is
\* what the parser yields on that text from fresh locals, whatever the other
\* request did, and two requests to one endpoint with the same reply text
\* get the same answer.
C8_ParseDeterministic ==
    /\ \A r \in Requests :
          (pc[r] = "done" /\ ReplyReceived(r)) =>
              [status |-> status[r], result |-> result[r]]
                  = ParseOf(request[r].endpoint, raw_output[r])
    /\ \A r1, r2 \in Requests :
          (pc[r1] = "done" /\ pc[r2] = "done" /\ ReplyReceived(r1) /\ ReplyReceived(r2)
              /\ request[r1].endpoint = request[r2].endpoint
              /\ raw_output[r1] = raw_output[r2])
              => (status[r1] = status[r2] /\ result[r1] = result[r2])

\* C8's case: two requests to classify_text with the same reply, both
\* answered, after their scans were interleaved.
C8_Witness ==
    \E r1, r2 \in Requests :
        /\ r1 # r2
        /\ Returned(r1) /\ Returned(r2)
        /\ request[r1].endpoint = "classify_text"
        /\ request[r2].endpoint = "classify_text"
        /\ raw_output[r1] = raw_output[r2]
        /\ result[r1].confidence = TextConfidenceDefault

\* The first category, in the order constructive, neutral, hate_speech,
\* unrelated, that occurs in text t; neutral when none occurs.
PriorityCategory(t) ==
    IF Contains(t, "constructive") THEN "constructive"
    ELSE IF Contains(t, "neutral") THEN "neutral"
    ELSE IF Contains(t, "hate_speech") THEN "hate_speech"
    ELSE IF Contains(t, "unrelated") THEN "unrelated"
    ELSE "neutral"

\* C9: a valid scanned classification is the result, whatever else the reply
\* contains; an invalid one is replaced by the first category in priority
\* order that occurs in the lowercased reply, neutral when none occurs.
C9_FallbackPriority ==
    \A r \in Requests :
        Parsed(r) =>
            /\ loc[r].classification =
                  IF scanned[r] \in Categories THEN scanned[r]
                  ELSE PriorityCategory(Lower(raw_output[r]))
            /\ Returned(r) => result[r].classification = loc[r].classification

\* C9's case: the fallback ran on a reply where unrelated occurs before
\* neutral, and neutral was returned.
C9_Witness ==
    \E r \in Requests :
        /\ Returned(r)
        /\ scanned[r] \notin Categories
        /\ Contains(Lower(raw_output[r]), "unrelated")
        /\ Find(Lower(raw_output[r]), "unrelated") < Find(Lower(raw_output[r]), "neutral")
        /\ result[r].classification = "neutral"

\* C10: classify_text and classify_image answer the same reply text alike.
C10_CopiesAgree ==
    \A r1, r2 \in Requests :
        (pc[r1] = "done" /\ pc[r2] = "done" /\ ReplyReceived(r1) /\ ReplyReceived(r2)
            /\ request[r1].endpoint = "classify_text"
            /\ request[r2].endpoint = "classify_image"
            /\ raw_output[r1] = raw_output[r2])
            => (status[r1] = status[r2] /\ result[r1] = result[r2])

\* C10's case: the same malformed CONFIDENCE: reply answered by both
\* endpoints.
C10_Witness ==
    \E r1, r2 \in Requests :
        /\ Returned(r1) /\ Returned(r2)
        /\ request[r1].endpoint = "classify_text"
        /\ request[r2].endpoint = "classify_image"
        /\ raw_output[r1] = raw_output[r2]
        /\ result[r2].confidence = ImageConfidenceDefault
====
